---- MODULE Spec2Model ----
(***************************************************************************)
(* Arc RPC: two Rpc endpoints (src/unnamed/part_001) joined by one ordered *)
(* message channel.  "S" is the README's server side, "C" its client side. *)
(***************************************************************************)
EXTENDS Integers, Sequences, FiniteSets, TLC

VARIABLES
  child,         \* Rpc._child: the exposed object of each endpoint
  allowCount,    \* number of 'fnCall' listeners allow() has put on the stream
  wraps,         \* paths of the nested objects allow(true) wrapped -> number of set-traps
  lastData,      \* Rpc._lastData: the cached tree
  classBase,     \* the tree the current mirror root (Rpc.class) was generated over
  chan,          \* messages in flight TO each endpoint, in delivery order
  resListeners,  \* ids with a stream.once listener of a pending _call
  cbListeners,   \* stream.on listeners of function arguments: [id, fn]
  calls,         \* every _call issued, by response id
  invs,          \* member invocations that have not settled yet
  nextId,        \* number of uuid() values drawn so far, plus one
  cbLog,         \* invocations of the application's own functions
  evLog,         \* user events re-emitted by RpcEvents
  evListeners,   \* listeners the application subscribed on Rpc.events: [id, fn]
  lisLog,        \* invocations of those listeners
  evSent,        \* user events each endpoint's application has sent
  assigned,      \* assignments each endpoint's application has made: [path, value]
  syncLog,       \* dataUpdate / propUpdate messages delivered, in order
  disc,          \* endpoint has emitted 'disconnected'
  callsLeft,     \* application calls still to be issued
  assignsLeft,   \* application assignments still to be made
  evtsLeft,      \* user events still to be sent
  unhandled      \* promises of async listeners that rejected with nobody to catch

\* the application's side of Rpc.events
evVars == <<evListeners, lisLog, evSent>>

vars == <<child, allowCount, wraps, lastData, classBase, chan, resListeners,
          cbListeners, calls, invs, nextId, cbLog, evLog, syncLog, disc,
          callsLeft, assignsLeft, evtsLeft, evVars, assigned, unhandled>>

\* ---------------------------------------------------------------- bounds
MaxCalls == 2       \* application calls in the call specification
MaxFairCalls == 1   \* application calls in the bidirectional specification
MaxAllow == 2       \* allow () invocations per endpoint
MaxAssign == 2      \* assignments to the exposed object
MaxInbound == 3     \* synchronisation messages in the receiving specification
MaxEvts == 2        \* user events in the events specification
MaxSubs == 2        \* listeners subscribed per events object
MaxInvoke == 2      \* callback-invoke messages a peer sends of its own accord

Endpoints == {"S", "C"}
Peer(e) == IF e = "S" THEN "C" ELSE "S"

\* ---------------------------------------------------------------- values
Empty == [k \in {} |-> 0]
Leaf(s) == [kind |-> "val", v |-> s, fields |-> Empty]
Obj(f) == [kind |-> "obj", v |-> "", fields |-> f]
Fn(name) == [kind |-> "fn", v |-> name, fields |-> Empty]
Undefined == [kind |-> "undef", v |-> "", fields |-> Empty]
Null == [kind |-> "null", v |-> "", fields |-> Empty]
ErrorOf(msg) == [kind |-> "Error", v |-> msg, fields |-> Empty]

\* uuid (): a fresh identifier at every draw
uuid(n) == "u" \o ToString(n)

\* reading a property the record does not have gives undefined
Field(rec, name) == IF name \in DOMAIN rec THEN rec[name] ELSE "undefined"

\* Errio.toObject / Errio.fromObject: the error travels as a plain object
ErrioToObject(err) == [kind |-> "errobj", v |-> err.v, fields |-> Empty]
ErrioFromObject(data) ==
  IF data.kind = "errobj" THEN ErrorOf(data.v) ELSE ErrorOf("")

\* x == null: undefined or null
IsNull(x) == x.kind \in {"undef", "null"}

\* objectPath.get with includeInheritedProps
GetShallowProperty(obj, key) ==
  IF obj.kind = "obj" /\ key \in DOMAIN obj.fields THEN obj.fields[key] ELSE Undefined

RECURSIVE ObjectPathGet(_, _)
ObjectPathGet(obj, path) ==
  IF path = <<>> THEN obj
  ELSE IF IsNull(obj) THEN Undefined
  ELSE LET nextObj == GetShallowProperty(obj, Head(path))
       IN IF nextObj.kind = "undef" THEN Undefined
          ELSE IF Len(path) = 1 THEN nextObj
          ELSE ObjectPathGet(nextObj, Tail(path))

\* objectPath.set: missing intermediate segments are created as objects
RECURSIVE ObjectPathSet(_, _, _)
ObjectPathSet(obj, path, value) ==
  IF path = <<>> \/ obj.kind # "obj" THEN obj
  ELSE LET currentPath == Head(path)
           currentValue == GetShallowProperty(obj, currentPath)
           others == DOMAIN obj.fields \ {currentPath}
           put(x) == Obj([k \in DOMAIN obj.fields \cup {currentPath} |->
                            IF k = currentPath THEN x ELSE obj.fields[k]])
       IN IF Len(path) = 1 THEN put(value)
          ELSE IF currentValue.kind = "undef"
               THEN put(ObjectPathSet(Obj(Empty), Tail(path), value))
               ELSE put(ObjectPathSet(currentValue, Tail(path), value))

\* what the channel's codec carries of an object: its data, not its functions
RECURSIVE Serialize(_)
Serialize(node) ==
  IF node.kind # "obj" THEN node
  ELSE LET keep == {k \in DOMAIN node.fields : node.fields[k].kind # "fn"}
       IN Obj([k \in keep |-> Serialize(node.fields[k])])

\* ---------------------------------------------------------------- exposed objects
\* README Server.js: ClientClass, extended with the members the properties need
ClientChild ==
  Obj([k \in {"a", "b", "greet", "boom", "useCb", "later", "slow", "clientTest"} |->
        CASE k = "a" -> Leaf("1")
          [] k = "b" -> Obj([j \in {"c", "get"} |->
                              IF j = "c" THEN Leaf("2") ELSE Fn("get")])
          [] OTHER -> Fn(k)])

\* README Client.js: ServerClass
ServerChild == Obj([k \in {"serverTest"} |-> Fn("serverTest")])

ChildOf(e) == IF e = "C" THEN ClientChild ELSE ServerChild

\* an exposed object of data alone, with an object nested in a nested object
DeepChild ==
  Obj([k \in {"a", "b"} |->
        IF k = "a" THEN Leaf("1")
        ELSE Obj([j \in {"c"} |-> Obj([i \in {"a"} |-> Leaf("2")])])])

\* ---------------------------------------------------------------- initial state
\* the state after both constructors, over the objects given to them, with the
\* applications' budgets
InitOver(children, nCalls, nAssigns, nEvts) ==
  /\ child = children
  /\ allowCount = [e \in Endpoints |-> 0]
  /\ wraps = [e \in Endpoints |-> Empty]
  /\ lastData = [e \in Endpoints |-> Obj(Empty)]
  /\ classBase = [e \in Endpoints |-> Obj(Empty)]
  /\ chan = [e \in Endpoints |-> <<>>]
  /\ resListeners = [e \in Endpoints |-> {}]
  /\ cbListeners = [e \in Endpoints |-> {}]
  /\ calls = Empty
  /\ invs = {}
  /\ nextId = 1
  /\ cbLog = [e \in Endpoints |-> <<>>]
  /\ evLog = [e \in Endpoints |-> <<>>]
  /\ evListeners = [e \in Endpoints |-> <<>>]
  /\ lisLog = [e \in Endpoints |-> <<>>]
  /\ evSent = [e \in Endpoints |-> <<>>]
  /\ assigned = [e \in Endpoints |-> <<>>]
  /\ unhandled = [e \in Endpoints |-> 0]
  /\ syncLog = [e \in Endpoints |-> <<>>]
  /\ disc = [e \in Endpoints |-> FALSE]
  /\ callsLeft = nCalls
  /\ assignsLeft = nAssigns
  /\ evtsLeft = nEvts

InitWith(nCalls, nAssigns, nEvts) ==
  InitOver([e \in Endpoints |-> ChildOf(e)], nCalls, nAssigns, nEvts)

Init == InitWith(MaxCalls, 0, 0)

\* ---------------------------------------------------------------- channel
\* stream.send (id, data): the message joins the peer's inbound queue; a closed
\* connection carries nothing
Enqueue(q, to, msgs) == IF disc[to] THEN q ELSE [q EXCEPT ![to] = @ \o msgs]

RECURSIVE Rep(_, _)
Rep(n, s) == IF n = 0 THEN <<>> ELSE s \o Rep(n - 1, s)

Front(s) == SubSeq(s, 1, Len(s) - 1)

\* ---------------------------------------------------------------- allow ()
\* Object.keys order of the exposed objects' properties
KeyOrder == <<"a", "b", "c", "get", "greet", "boom", "useCb", "later", "slow",
              "clientTest", "serverTest">>

\* traverse (part, path): the paths of the properties it wraps, in visiting order
RECURSIVE TraverseFrom(_, _, _)
TraverseFrom(part, path, i) ==
  IF i > Len(KeyOrder) THEN <<>>
  ELSE LET key == KeyOrder[i]
           partPath == Append(path, key)
       IN IF part.kind = "obj" /\ key \in DOMAIN part.fields
             /\ part.fields[key].kind \in {"obj", "fn"}
          THEN <<partPath>> \o TraverseFrom(part.fields[key], partPath, 1)
                 \o TraverseFrom(part, path, i + 1)
          ELSE TraverseFrom(part, path, i + 1)

Traverse(part) == TraverseFrom(part, <<>>, 1)

\* number of set-traps an assignment to a property of the object at path runs through
Traps(w, path) == IF path \in DOMAIN w THEN w[path] ELSE 0

\* a value as the codec carries it: data, and nothing for a function
Wire(node) == IF node.kind = "fn" THEN Undefined ELSE Serialize(node)

PropUpdateMsg(path, value) ==
  [id |-> "propUpdate", data |-> [path |-> path, value |-> Wire(value)]]

\* the wrapped paths after one more traverse
WrapAll(w, paths) ==
  LET ps == {paths[i] : i \in 1..Len(paths)}
  IN [p \in DOMAIN w \cup ps |-> Traps(w, p) + (IF p \in ps THEN 1 ELSE 0)]

\* part[key] = new Proxy (...) inside traverse: when part is itself wrapped, the
\* assignment runs through part's set-traps, each sending a propUpdate
RECURSIVE WrapSends(_, _, _, _)
WrapSends(obj, w, paths, i) ==
  IF i > Len(paths) THEN <<>>
  ELSE LET p == paths[i]
       IN Rep(Traps(w, Front(p)), <<PropUpdateMsg(p, ObjectPathGet(obj, p))>>)
            \o WrapSends(obj, w, paths, i + 1)

AllowSends(obj, w, updates) ==
  IF updates
  THEN <<[id |-> "dataUpdate", data |-> Serialize(obj)]>>
         \o WrapSends(obj, WrapAll(w, Traverse(obj)), Traverse(obj), 1)
  ELSE <<>>

\* each allow () puts one more 'fnCall' listener on the stream
AllowListeners(n) == n + 1

ListenersFromStart(e) == allowCount[e] + 1

ListenersWhenIdle(e) == IF resListeners[e] = {} THEN allowCount[e] ELSE 0

\* the 'fnCall' listeners the emitter of endpoint e runs for an inbound request
Listeners(e) == allowCount[e]

Allow(e, updates) ==
  /\ child[e].kind # "undef"
  /\ allowCount[e] < MaxAllow
  /\ chan' = Enqueue(chan, Peer(e), AllowSends(child[e], wraps[e], updates))
  /\ wraps' = [wraps EXCEPT ![e] = IF updates THEN WrapAll(@, Traverse(child[e])) ELSE @]
  /\ allowCount' = [allowCount EXCEPT ![e] = AllowListeners(@)]
  /\ UNCHANGED <<child, lastData, classBase, resListeners, cbListeners, calls, invs,
                 nextId, cbLog, evLog, syncLog, disc, callsLeft, assignsLeft, evtsLeft, evVars, assigned, unhandled>>

\* ---------------------------------------------------------------- the mirror
\* what a read of the mirror gives: a plain value, a mirror over base at path, or
\* a stub (a mirror over the handler that calls _call (path, params, parentPath))
Read(type, value, path, parentPath) ==
  [type |-> type, value |-> value, path |-> path, parentPath |-> parentPath]

\* the async handler a stub is generated over: a function without data properties
Handler == Fn("handler")

\* the get trap of _genClass (base, path)
GenClassGet(base, path, property) ==
  LET propPath == Append(path, property)
      found == GetShallowProperty(base, property)
  IN IF ~IsNull(found)
     THEN IF found.kind \in {"obj", "fn"}
          THEN Read("mirror", found, propPath, path)
          ELSE Read("value", found, propPath, path)
     ELSE Read("stub", Handler, propPath, path)

\* rpc.class.<propPath>: the get traps along propPath from the mirror over base at
\* path; a property of a plain value reads undefined
RECURSIVE MirrorRead(_, _, _)
MirrorRead(base, path, propPath) ==
  IF propPath = <<>> THEN Read("mirror", base, path, Front(path))
  ELSE LET got == GenClassGet(base, path, Head(propPath))
       IN IF Len(propPath) = 1 THEN got
          ELSE IF got.type = "value"
               THEN Read("value", Undefined, path \o propPath, Front(path \o propPath))
               ELSE MirrorRead(got.value, got.path, Tail(propPath))

\* TRUE when the read ends in a call stub
IsStub(base, propPath) == MirrorRead(base, <<>>, propPath).type = "stub"

\* ---------------------------------------------------------------- _call
\* the applications' own functions, passed as arguments
AppFns == {"f"}

\* what the applications call through the mirror: [path, params]
CallInputs ==
  { [path |-> <<"greet">>, params |-> <<>>],
    [path |-> <<"b", "get">>, params |-> <<>>],
    [path |-> <<"boom">>, params |-> <<>>],
    [path |-> <<"missing">>, params |-> <<>>],
    [path |-> <<"zz", "m">>, params |-> <<>>],
    [path |-> <<"a">>, params |-> <<>>],
    [path |-> <<"useCb">>, params |-> <<Fn("f")>>],
    [path |-> <<"later">>, params |-> <<Fn("f")>>],
    [path |-> <<"slow">>, params |-> <<>>],
    [path |-> <<"clientTest">>, params |-> <<>>] }

\* number of function-valued arguments among the first n
RECURSIVE FnsBefore(_, _)
FnsBefore(params, n) ==
  IF n = 0 THEN 0
  ELSE FnsBefore(params, n - 1) + (IF params[n].kind = "fn" THEN 1 ELSE 0)

CbIdIsResId(id, params, i) == uuid(id)

\* the identifier _call draws for the i-th argument (a function); id is the call's
\* own response id, drawn first
CbId(id, params, i) == uuid(id + FnsBefore(params, i))

\* the wire form of a function-valued argument
FuncParam(cbResId) == [isFunc |-> TRUE, resId |-> cbResId]

ParsedParams(id, params) ==
  [i \in 1..Len(params) |->
     IF params[i].kind = "fn"
     THEN FuncParam(CbId(id, params, i))
     ELSE [isFunc |-> FALSE, data |-> params[i]]]

\* the stream.on listeners _call registers for the function-valued arguments
CbRegistrations(id, params) ==
  { [id |-> CbId(id, params, i), fn |-> params[i].v] :
      i \in {j \in 1..Len(params) : params[j].kind = "fn"} }

FnCallMsg(id, path, parentPath, params) ==
  [id |-> "fnCall",
   data |-> [path |-> path, parentPath |-> parentPath, resId |-> uuid(id),
             params |-> ParsedParams(id, params)]]

\* the record kept of one _call: the caller's promise (st, out, done, late), the
\* ids of its Callback References (refs) and what the peer's dispatcher did for it
\* (invoked, finished, resps, the receivers recv it bound the member to, the
\* invocations of its stubs, and those made after the caller's promise settled)
NewCall(id, e, path, parentPath, by, refs) ==
  [n |-> id, caller |-> e, path |-> path, parentPath |-> parentPath, by |-> by,
   refs |-> refs, st |-> "pending", out |-> Undefined, done |-> 0, ord |-> 0,
   late |-> 0, dropped |-> 0, invoked |-> 0, finished |-> 0, resps |-> <<>>,
   recv |-> <<>>, stubs |-> 0, lateStubs |-> 0]

\* rpc.class.<propPath> (...params): the stub calls _call (propPath, params, path)
AppCall(e, in) ==
  /\ callsLeft > 0
  /\ IsStub(classBase[e], in.path)
  /\ LET id == nextId
         n == FnsBefore(in.params, Len(in.params))
         stub == MirrorRead(classBase[e], <<>>, in.path)
     IN /\ nextId' = id + 1 + n
        /\ cbListeners' = [cbListeners EXCEPT ![e] = @ \cup CbRegistrations(id, in.params)]
        /\ chan' = Enqueue(chan, Peer(e),
                           <<FnCallMsg(id, stub.path, stub.parentPath, in.params)>>)
        /\ resListeners' = [resListeners EXCEPT ![e] = @ \cup {uuid(id)}]
        /\ calls' = (uuid(id) :> NewCall(id, e, stub.path, stub.parentPath, "app",
                                          {cb.id : cb \in CbRegistrations(id, in.params)}))
                     @@ calls
  /\ callsLeft' = callsLeft - 1
  /\ UNCHANGED <<child, allowCount, wraps, lastData, classBase, invs, cbLog, evLog,
                 syncLog, disc, assignsLeft, evtsLeft, evVars, assigned, unhandled>>

\* ---------------------------------------------------------------- the dispatcher
ResMsgPrefixed(resId, isError, data) ==
  [id |-> "fnRes." \o resId, data |-> [isError |-> isError, data |-> data]]

ResMsg(resId, isError, data) ==
  [id |-> resId, data |-> [isError |-> isError, data |-> data]]

\* the key under which the reconstructed stub sends its callback-invoke message
StubKeyResId(param) == Field(param, "resId")

StubKey(param) == Field(param, "funcId")

\* call.params.map: a wrapped function becomes a stub, anything else its data
\* property (undefined for an entry without one)
MapParams(params) ==
  [i \in 1..Len(params) |->
     IF "isFunc" \in DOMAIN params[i] /\ params[i].isFunc
     THEN [stub |-> TRUE, key |-> StubKey(params[i])]
     ELSE [stub |-> FALSE,
           data |-> IF "data" \in DOMAIN params[i] THEN params[i].data ELSE Undefined]]

\* call.params.map (...) throws a TypeError, outside the try, when the request has
\* no argument list (call.params is undefined) or an entry is null (param.isFunc)
MapThrows(call) ==
  \/ "params" \notin DOMAIN call
  \/ \E i \in 1..Len(call.params) :
       "kind" \in DOMAIN call.params[i] /\ IsNull(call.params[i])

\* the stub: (...fnParams) => stream.send (key, {params: fnParams})
StubSend(param, fnParams) == [id |-> param.key, data |-> [params |-> fnParams]]

TypeError(msg) == ErrorOf(msg)

\* the members of the exposed objects, run with receiver parent and arguments params
\* up to their first suspension: what they return or throw, or what they wait for,
\* the messages their stubs sent meanwhile, and the messages a stub they kept will
\* send when their timer fires (defer)
Member(name, parent, params) ==
  LET ret(type, value, sends) ==
        [type |-> type, value |-> value, sends |-> sends, defer |-> <<>>]
  IN CASE name = "greet" -> ret("return", Leaf("hi"), <<>>)
       [] name = "serverTest" -> ret("return", Undefined, <<>>)
       [] name = "get" ->
            IF IsNull(parent)
            THEN ret("throw", TypeError("this is undefined"), <<>>)
            ELSE ret("return", GetShallowProperty(parent, "c"), <<>>)
       [] name = "boom" -> ret("throw", ErrorOf("boom"), <<>>)
       [] name = "useCb" ->
            IF Len(params) >= 1 /\ params[1].stub
            THEN ret("return", Leaf("ok"), <<StubSend(params[1], <<Leaf("1"), Leaf("2")>>)>>)
            ELSE ret("throw", TypeError("cb is not a function"), <<>>)
       [] name = "later" ->
            IF Len(params) >= 1 /\ params[1].stub
            THEN [type |-> "return", value |-> Leaf("ok"), sends |-> <<>>,
                  defer |-> <<StubSend(params[1], <<Leaf("3")>>)>>]
            ELSE ret("return", Leaf("ok"), <<>>)
       [] name = "slow" -> ret("timer", Leaf("late"), <<>>)
       [] name = "clientTest" -> ret("nested", Undefined, <<>>)
       [] OTHER -> ret("return", Undefined, <<>>)

ParentIsChild(obj, call) == obj

\* let parent = objectPath.get (this._child, call.parentPath)
Parent(obj, call) == ObjectPathGet(obj, call.parentPath)

\* one 'fnCall' listener up to its first suspension, or up to the exception that
\* rejects its promise
Dispatch(obj, call) ==
  LET handler == ObjectPathGet(obj, call.path)
      parent == Parent(obj, call)
      refuse(data) ==
        [type |-> "respond", isError |-> TRUE, data |-> data, sends |-> <<>>,
         defer |-> <<>>, invoked |-> 0, receiver |-> Undefined]
  IN IF IsNull(handler)
     THEN refuse(Leaf("No such method"))
     ELSE IF MapThrows(call)
     THEN [type |-> "reject", isError |-> TRUE, data |-> Undefined, sends |-> <<>>,
           defer |-> <<>>, invoked |-> 0, receiver |-> Undefined]
     ELSE IF handler.kind # "fn"
     THEN refuse(ErrioToObject(TypeError("handler.bind is not a function")))
     ELSE LET run == Member(handler.v, parent, MapParams(call.params))
              ran(type, isError, data) ==
                [type |-> type, isError |-> isError, data |-> data,
                 sends |-> run.sends, defer |-> run.defer, invoked |-> 1,
                 receiver |-> parent]
          IN CASE run.type = "return" -> ran("respond", FALSE, run.value)
               [] run.type = "throw" -> ran("respond", TRUE, ErrioToObject(run.value))
               [] OTHER -> ran(run.type, FALSE, run.value)

\* the dispatcher's bookkeeping of request r: n more invocations begun, bound to
\* receiver, their stubs invoked stubs times meanwhile
Begun(cs, r, n, receiver, stubs) ==
  [cs EXCEPT ![r].invoked = @ + n, ![r].recv = @ \o Rep(n, <<receiver>>),
             ![r].stubs = @ + stubs]

\* ... and n invocations ended, m responses resp sent
Served(cs, r, n, m, resp) ==
  [cs EXCEPT ![r].finished = @ + n, ![r].resps = @ \o Rep(m, <<resp>>)]

\* response = await handler.bind (parent) (...params): the listener stays suspended
\* past this delivery when the member's promise has not settled
SuspendsNever(d) == FALSE

Suspends(d) == d.type # "respond"

\* an inbound 'fnCall' runs every listener allow () registered, in turn
DeliverFnCall(e) ==
  /\ chan[e] # <<>> /\ ~disc[e]
  /\ Head(chan[e]).id = "fnCall"
  /\ LET call == Head(chan[e]).data
         r == call.resId
         k == Listeners(e)
         d == Dispatch(child[e], call)
         q == [chan EXCEPT ![e] = Tail(@)]
         ids == [i \in 1..k |-> nextId + i - 1]
     IN CASE k = 0 ->
               /\ chan' = q
               /\ calls' = [calls EXCEPT
                             ![r].dropped = @ + (IF allowCount[e] = 0 THEN 1 ELSE 0)]
               /\ UNCHANGED <<invs, nextId, resListeners>>
          [] k > 0 /\ ~Suspends(d) ->
               /\ chan' = Enqueue(q, Peer(e),
                            Rep(k, d.sends) \o Rep(k, <<ResMsg(r, d.isError, d.data)>>))
               /\ calls' = Served(Begun(calls, r, k * d.invoked, d.receiver,
                                        k * Len(d.sends)),
                                  r, IF d.type = "respond" THEN k * d.invoked ELSE 0, k,
                                  [isError |-> d.isError, data |-> d.data])
               /\ invs' = invs \cup
                           { [ep |-> e, req |-> r, lis |-> i, member |-> "later",
                              wait |-> "timer", send |-> d.defer] :
                               i \in IF d.defer = <<>> THEN {} ELSE 1..k }
               /\ UNCHANGED <<nextId, resListeners>>
          [] k > 0 /\ Suspends(d) /\ d.type = "timer" ->
               /\ chan' = Enqueue(q, Peer(e), Rep(k, d.sends))
               /\ invs' = invs \cup { [ep |-> e, req |-> r, lis |-> i, member |-> "slow",
                                       wait |-> "timer", send |-> <<>>] : i \in 1..k }
               /\ calls' = Begun(calls, r, k, d.receiver, k * Len(d.sends))
               /\ UNCHANGED <<nextId, resListeners>>
          [] k > 0 /\ Suspends(d) /\ d.type = "nested" ->
               /\ chan' = Enqueue(q, Peer(e),
                            [i \in 1..k |-> FnCallMsg(ids[i], <<"serverTest">>, <<>>, <<>>)])
               /\ invs' = invs \cup { [ep |-> e, req |-> r, lis |-> i,
                                       member |-> "clientTest",
                                       wait |-> uuid(ids[i]), send |-> <<>>] : i \in 1..k }
               /\ resListeners' = [resListeners EXCEPT
                                     ![e] = @ \cup {uuid(ids[i]) : i \in 1..k}]
               /\ calls' = [x \in {uuid(ids[i]) : i \in 1..k} |->
                              NewCall(CHOOSE i \in 1..k : uuid(ids[i]) = x, e,
                                      <<"serverTest">>, <<>>, r, {})]
                           @@ Begun(calls, r, k, d.receiver, 0)
               /\ nextId' = nextId + k
          [] k > 0 /\ d.type = "reject" ->
               /\ chan' = q
               /\ UNCHANGED <<calls, invs, nextId, resListeners>>
  /\ unhandled' = [unhandled EXCEPT
                     ![e] = @ + (IF Dispatch(child[e], Head(chan[e]).data).type = "reject"
                                 THEN Listeners(e) ELSE 0)]
  /\ UNCHANGED <<child, allowCount, wraps, lastData, classBase, cbListeners, cbLog,
                 evLog, syncLog, disc, callsLeft, assignsLeft, evtsLeft, evVars, assigned>>

\* ---------------------------------------------------------------- settling
\* the timer a member set fires: a suspended member returns, and the listener that
\* awaited it sends the response; a member that returned earlier and kept its
\* callback stub invokes it now
Settle(inv) ==
  /\ inv \in invs
  /\ inv.wait = "timer"
  /\ invs' = invs \ {inv}
  /\ IF inv.member = "slow"
     THEN /\ chan' = Enqueue(chan, Peer(inv.ep), <<ResMsg(inv.req, FALSE, Leaf("late"))>>)
          /\ calls' = Served(calls, inv.req, 1, 1,
                             [isError |-> FALSE, data |-> Leaf("late")])
     ELSE /\ chan' = Enqueue(chan, Peer(inv.ep), inv.send)
          /\ calls' = [calls EXCEPT
                         ![inv.req].stubs = @ + Len(inv.send),
                         ![inv.req].lateStubs =
                            @ + (IF calls[inv.req].st # "pending" THEN Len(inv.send) ELSE 0)]
  /\ UNCHANGED <<child, allowCount, wraps, lastData, classBase, resListeners,
                 cbListeners, nextId, cbLog, evLog, syncLog, disc, callsLeft,
                 assignsLeft, evtsLeft, evVars, assigned, unhandled>>

\* the event names the endpoint listens for by name; every other id is a uuid
EventNames == {"fnCall", "dataUpdate", "propUpdate", "evt"}

OnceListenerAnyId(ls, id) == IF id \in ls THEN ls ELSE {}

\* the stream.once listeners the emitter runs for an inbound event id
OnceListener(ls, id) == IF id \in ls THEN {id} ELSE {}

AfterOn(ls, ran) == ls

\* stream.once: the listeners that ran are off the stream afterwards
AfterOnce(ls, ran) == ls \ ran

\* the stream.on listeners of function arguments the emitter runs for an event id
OnListeners(ls, id) == {cb \in ls : cb.id = id}

\* _genClass's handler on the value _call returned
Outcome(out) ==
  IF out.isError
  THEN [st |-> "rejected", out |-> ErrioFromObject(out.data)]
  ELSE [st |-> "resolved", out |-> out.data]

RECURSIVE SeqOf(_)
SeqOf(set) ==
  IF set = {} THEN <<>>
  ELSE LET x == CHOOSE y \in set : TRUE IN <<x>> \o SeqOf(set \ {x})

\* README clientTest after its await: it returns nothing when the awaited call
\* resolved and throws the error it rejected with
ClientTestEnds(res) ==
  IF res.st = "rejected"
  THEN [isError |-> TRUE, data |-> ErrioToObject(res.out)]
  ELSE [isError |-> FALSE, data |-> Undefined]

\* the emitter emits a message whose id is no event name to the listeners under
\* that id.  A stream.once listener of _call is removed, its caller's promise
\* settles, and a member awaiting that promise runs on to its end, whereupon the
\* dispatcher answers the member's own request.  A stream.on listener of a function
\* argument runs the original function with the delivered arguments.  With no
\* listener under the id the message is emitted to nobody.
DeliverKeyed(e) ==
  /\ chan[e] # <<>> /\ ~disc[e]
  /\ Head(chan[e]).id \notin EventNames
  /\ LET m == Head(chan[e])
         once == OnceListener(resListeners[e], m.id)
         cbs == SeqOf(OnListeners(cbListeners[e], m.id))
         res == Outcome(m.data)
         q == [chan EXCEPT ![e] = Tail(@)]
         settled == [r \in DOMAIN calls |->
                       IF r \in once
                       THEN [calls[r] EXCEPT
                               !.st = res.st, !.out = res.out, !.done = @ + 1,
                               !.ord = 1 + Cardinality({x \in DOMAIN calls :
                                                          calls[x].st # "pending"})]
                       ELSE IF r = m.id /\ cbs = <<>>
                       THEN [calls[r] EXCEPT !.late = @ + 1]
                       ELSE calls[r]]
         waiting == SeqOf({inv \in invs : inv.ep = e /\ inv.wait \in once})
         ends == ClientTestEnds(res)
         served == [r \in DOMAIN calls |->
                      LET n == Cardinality({i \in 1..Len(waiting) : waiting[i].req = r})
                      IN [settled[r] EXCEPT !.finished = @ + n,
                                            !.resps = @ \o Rep(n, <<ends>>)]]
     IN /\ resListeners' = [resListeners EXCEPT ![e] = AfterOnce(@, once)]
        /\ cbLog' = [cbLog EXCEPT ![e] =
                       @ \o [i \in 1..Len(cbs) |->
                               [id |-> cbs[i].id, fn |-> cbs[i].fn,
                                args |-> m.data.params]]]
        /\ invs' = invs \ {waiting[i] : i \in 1..Len(waiting)}
        /\ chan' = Enqueue(q, Peer(e),
                     [i \in 1..Len(waiting) |->
                        ResMsg(waiting[i].req, ends.isError, ends.data)])
        /\ calls' = served
  /\ UNCHANGED <<child, allowCount, wraps, lastData, classBase, cbListeners, nextId,
                 evLog, syncLog, disc, callsLeft, assignsLeft, evtsLeft, evVars, assigned, unhandled>>

\* ---------------------------------------------------------------- synchronisation
\* 'dataUpdate' listener: this._lastData = data
ApplyDataUpdate(tree, data) == data

ClassOverStale(before, after) == before

\* this.class = this._genClass (..., []) runs after the cached tree was updated:
\* the mirror root is generated over the updated tree
ClassOver(before, after) == after

ApplyPropUpdateNoCreate(tree, data) ==
  IF ObjectPathGet(tree, Front(data.path)).kind = "obj"
  THEN ObjectPathSet(tree, data.path, data.value)
  ELSE tree

ApplyPropUpdateLastKey(tree, data) ==
  ObjectPathSet(tree, <<data.path[Len(data.path)]>>, data.value)

\* 'propUpdate' listener: objectPath.set (this._lastData, data.path, data.value)
ApplyPropUpdate(tree, data) == ObjectPathSet(tree, data.path, data.value)

\* new Proxy (base, proxyHandler) throws a TypeError for a base that is no object
GenClassThrows(base) == base.kind \notin {"obj", "fn"}

\* objectPath.set throws a TypeError when it reads a property of null: the tree
\* itself, or the value of a segment before the last
RECURSIVE SetThrows(_, _)
SetThrows(obj, path) ==
  /\ path # <<>>
  /\ \/ IsNull(obj)
     \/ /\ Len(path) > 1
        /\ GetShallowProperty(obj, Head(path)).kind # "undef"
        /\ SetThrows(GetShallowProperty(obj, Head(path)), Tail(path))

\* the 'dataUpdate' listener stores the payload, then generates the mirror over it;
\* when that throws the mirror stays and the listener's promise rejects
DeliverDataUpdate(e) ==
  /\ chan[e] # <<>> /\ ~disc[e]
  /\ Head(chan[e]).id = "dataUpdate"
  /\ lastData' = [lastData EXCEPT ![e] = ApplyDataUpdate(@, Head(chan[e]).data)]
  /\ classBase' = [classBase EXCEPT
                     ![e] = IF GenClassThrows(lastData'[e]) THEN @
                            ELSE ClassOver(lastData[e], lastData'[e])]
  /\ unhandled' = [unhandled EXCEPT
                     ![e] = @ + (IF GenClassThrows(lastData'[e]) THEN 1 ELSE 0)]
  /\ syncLog' = [syncLog EXCEPT ![e] = Append(@, Head(chan[e]))]
  /\ chan' = [chan EXCEPT ![e] = Tail(@)]
  /\ UNCHANGED <<child, allowCount, wraps, resListeners, cbListeners, calls, invs,
                 nextId, cbLog, evLog, disc, callsLeft, assignsLeft, evtsLeft, evVars, assigned>>

\* the 'propUpdate' listener sets the value, then generates the mirror; when the
\* set throws, tree and mirror stay and the listener's promise rejects
DeliverPropUpdate(e) ==
  /\ chan[e] # <<>> /\ ~disc[e]
  /\ Head(chan[e]).id = "propUpdate"
  /\ lastData' = [lastData EXCEPT ![e] = ApplyPropUpdate(@, Head(chan[e]).data)]
  /\ classBase' = [classBase EXCEPT
                     ![e] = IF SetThrows(lastData[e], Head(chan[e]).data.path) THEN @
                            ELSE ClassOver(lastData[e], lastData'[e])]
  /\ unhandled' = [unhandled EXCEPT
                     ![e] = @ + (IF SetThrows(lastData[e], Head(chan[e]).data.path)
                                 THEN 1 ELSE 0)]
  /\ syncLog' = [syncLog EXCEPT ![e] = Append(@, Head(chan[e]))]
  /\ chan' = [chan EXCEPT ![e] = Tail(@)]
  /\ UNCHANGED <<child, allowCount, wraps, resListeners, cbListeners, calls, invs,
                 nextId, cbLog, evLog, disc, callsLeft, assignsLeft, evtsLeft, evVars, assigned>>

\* what a peer's synchronizer puts on the connection: snapshots of exposed objects
\* and updates of their properties
SnapshotInputs == {Serialize(ClientChild), Obj([k \in {"a"} |-> Leaf("7")])}

PropInputs ==
  { [path |-> <<"b", "c">>, value |-> Leaf("5")],
    [path |-> <<"b", "c">>, value |-> Null],
    [path |-> <<"a">>, value |-> Leaf("9")],
    [path |-> <<"x", "y">>, value |-> Leaf("3")] }

SyncMsgs ==
  {[id |-> "dataUpdate", data |-> d] : d \in SnapshotInputs}
    \cup {PropUpdateMsg(in.path, in.value) : in \in PropInputs}

\* the interface's 'message' listener: whatever the connection carries joins the
\* events the stream will emit
Inbound(e, m) ==
  /\ ~disc[e]
  /\ Len(chan[e]) + Len(syncLog[e]) < MaxInbound
  /\ chan' = [chan EXCEPT ![e] = Append(@, m)]
  /\ UNCHANGED <<child, allowCount, wraps, lastData, classBase, resListeners,
                 cbListeners, calls, invs, nextId, cbLog, evLog, syncLog, disc,
                 callsLeft, assignsLeft, evtsLeft, evVars, assigned, unhandled>>

\* Call Requests a peer of another make puts on the connection, without the
\* response id it draws: no argument list, an entry that is no wrapped value, a null
\* entry, and a well-formed one
PeerCalls ==
  { [path |-> <<"greet">>, parentPath |-> <<>>],
    [path |-> <<"greet">>, parentPath |-> <<>>, params |-> <<Leaf("x")>>],
    [path |-> <<"greet">>, parentPath |-> <<>>, params |-> <<Null>>],
    [path |-> <<"greet">>, parentPath |-> <<>>, params |-> <<>>] }

\* the requests the peer has put on the connection
FromPeer == {r \in DOMAIN calls : calls[r].by = "peer"}

\* the interface's 'message' listener, for a Call Request of the peer of e
InboundCall(e, c) ==
  /\ ~disc[e]
  /\ Cardinality(FromPeer) < MaxInbound
  /\ chan' = [chan EXCEPT
                ![e] = Append(@, [id |-> "fnCall", data |-> c @@ [resId |-> uuid(nextId)]])]
  /\ calls' = (uuid(nextId) :> NewCall(nextId, Peer(e), c.path, c.parentPath, "peer", {}))
                @@ calls
  /\ nextId' = nextId + 1
  /\ UNCHANGED <<child, allowCount, wraps, lastData, classBase, resListeners,
                 cbListeners, invs, cbLog, evLog, syncLog, disc, callsLeft,
                 assignsLeft, evtsLeft, evVars, assigned, unhandled>>

\* a Snapshot Update without an object, and well-formed updates
PeerSync ==
  { [id |-> "dataUpdate", data |-> Null],
    [id |-> "dataUpdate", data |-> Obj([k \in {"a"} |-> Leaf("7")])],
    PropUpdateMsg(<<"b", "c">>, Leaf("5")) }

\* a callback-invoke message as a stub that sends under the id it was given
\* produces it
InvokeMsg(cbResId) == [id |-> cbResId, data |-> [params |-> <<Leaf("1")>>]]

\* the interface's 'message' listener, for a peer whose stubs send under the id of
\* the Callback Reference they were built from; the message arrives while nothing
\* else is in flight to e
InboundInvoke(e, cb) ==
  /\ ~disc[e]
  /\ cb \in cbListeners[e]
  /\ chan[e] = <<>> /\ Len(cbLog[e]) < MaxInvoke
  /\ chan' = [chan EXCEPT ![e] = Append(@, InvokeMsg(cb.id))]
  /\ UNCHANGED <<child, allowCount, wraps, lastData, classBase, resListeners,
                 cbListeners, calls, invs, nextId, cbLog, evLog, syncLog, disc,
                 callsLeft, assignsLeft, evtsLeft, evVars, assigned, unhandled>>

\* the hosting application's assignments to the exposed object: [path, value]
AssignInputs ==
  { [path |-> <<"b", "c">>, value |-> Leaf("5")],
    [path |-> <<"b", "c">>, value |-> Null],
    [path |-> <<"a">>, value |-> Leaf("9")] }

\* child.<path> = value: an assignment to a property of a wrapped object runs
\* through its set-traps, each sending a propUpdate before the value is stored
Assign(e, in) ==
  /\ assignsLeft > 0
  /\ ObjectPathGet(child[e], Front(in.path)).kind = "obj"
  /\ chan' = Enqueue(chan, Peer(e),
                     Rep(Traps(wraps[e], Front(in.path)),
                         <<PropUpdateMsg(in.path, in.value)>>))
  /\ child' = [child EXCEPT ![e] = ObjectPathSet(@, in.path, in.value)]
  /\ assigned' = [assigned EXCEPT ![e] = Append(@, in)]
  /\ assignsLeft' = assignsLeft - 1
  /\ UNCHANGED <<allowCount, wraps, lastData, classBase, resListeners, cbListeners,
                 calls, invs, nextId, cbLog, evLog, syncLog, disc, callsLeft, evtsLeft,
                 evVars, unhandled>>

\* ---------------------------------------------------------------- user events
\* the user events the applications send: [id, params]
EventInputs ==
  { [id |-> "hello", params |-> <<Leaf("1")>>],
    [id |-> "hello", params |-> <<Leaf("2")>>],
    [id |-> "bye", params |-> <<>>] }

\* the listeners the applications subscribe: rpc.events.on (id, fn)
ListenerInputs ==
  { [id |-> "hello", fn |-> "h1"],
    [id |-> "bye", fn |-> "h2"] }

Subscribe(e, l) ==
  /\ Len(evListeners[e]) < MaxSubs
  /\ evListeners' = [evListeners EXCEPT ![e] = Append(@, l)]
  /\ UNCHANGED <<child, allowCount, wraps, lastData, classBase, chan, resListeners,
                 cbListeners, calls, invs, nextId, cbLog, evLog, syncLog, disc,
                 callsLeft, assignsLeft, evtsLeft, lisLog, evSent, assigned, unhandled>>

EvtMsg(ev) == [id |-> "evt", data |-> [params |-> ev.params, id |-> ev.id]]

\* RpcEvents.send (id, ...params)
UserEvent(e, ev) ==
  /\ evtsLeft > 0
  /\ chan' = Enqueue(chan, Peer(e), <<EvtMsg(ev)>>)
  /\ evSent' = [evSent EXCEPT ![e] = Append(@, ev)]
  /\ evtsLeft' = evtsLeft - 1
  /\ UNCHANGED <<child, allowCount, wraps, lastData, classBase, resListeners,
                 cbListeners, calls, invs, nextId, cbLog, evLog, syncLog, disc,
                 callsLeft, assignsLeft, evListeners, lisLog, assigned, unhandled>>

EmitToAll(ls, id) == ls

\* this.emit (data.id, ...): the listeners under that id, in subscription order
EmitTo(ls, id) == SelectSeq(ls, LAMBDA l : l.id = id)

\* RpcEvents._listen: the event is re-emitted to the listeners on the events object
DeliverEvt(e) ==
  /\ chan[e] # <<>> /\ ~disc[e]
  /\ Head(chan[e]).id = "evt"
  /\ LET data == Head(chan[e]).data
         run == EmitTo(evListeners[e], data.id)
     IN /\ evLog' = [evLog EXCEPT ![e] = Append(@, data)]
        /\ lisLog' = [lisLog EXCEPT ![e] =
                        @ \o [i \in 1..Len(run) |->
                                [fn |-> run[i].fn, args |-> data.params]]]
  /\ chan' = [chan EXCEPT ![e] = Tail(@)]
  /\ UNCHANGED <<child, allowCount, wraps, lastData, classBase, resListeners,
                 cbListeners, calls, invs, nextId, cbLog, syncLog, disc, callsLeft,
                 assignsLeft, evtsLeft, evListeners, evSent,
                 assigned, unhandled>>

\* ---------------------------------------------------------------- disconnect
OnDisconnectRejects(cs, e) ==
  [r \in DOMAIN cs |->
     IF cs[r].caller = e /\ cs[r].st = "pending"
     THEN [cs[r] EXCEPT !.st = "rejected", !.out = ErrorOf("disconnected"),
                        !.done = @ + 1]
     ELSE cs[r]]

\* _onDisconnect (): this.emit ('disconnected'), and nothing for the calls of e
OnDisconnect(cs, e) == cs

\* the connection is gone: what was in flight is lost, and each interface calls
\* _onDisconnect, which emits 'disconnected'
Closed ==
  /\ disc' = [e \in Endpoints |-> TRUE]
  /\ chan' = [e \in Endpoints |-> <<>>]
  /\ calls' = OnDisconnect(OnDisconnect(calls, "S"), "C")
  /\ UNCHANGED <<child, allowCount, wraps, lastData, classBase, resListeners,
                 cbListeners, invs, nextId, cbLog, evLog, syncLog, callsLeft,
                 assignsLeft, evtsLeft, evVars, assigned, unhandled>>

\* the transport reports the loss of the connection
Disconnect ==
  /\ \E e \in Endpoints : ~disc[e]
  /\ Closed

\* destroy (): this._stream.destroy () closes the connection from endpoint e
Destroy(e) ==
  /\ ~disc[e]
  /\ Closed

\* ---------------------------------------------------------------- a direct stream
\* Rpc over a stream whose send () emits the event on the peer's stream before it
\* returns (two emitters joined in one process): nothing is ever in flight, and a
\* listener's code after an await runs as a microtask of its own
DirectInputs ==
  {in \in CallInputs :
     in.path \in {<<"greet">>, <<"b", "get">>, <<"boom">>, <<"missing">>,
                  <<"zz", "m">>, <<"a">>}}

\* the 'fnCall' listener sends its refusal, and the error of a member that throws
\* when called, before its first await; the value a member returns is sent after
\* response = await ...
RepliesBeforeAwait(d) == d.isError

\* _call on a direct stream, up to its await: stream.send ('fnCall', ...) runs the
\* peer's listeners, each up to its first await, and a reply they send meanwhile is
\* emitted on the caller's stream at once; only then does _call register its
\* stream.once listener
DirectCall(e, in) ==
  /\ callsLeft > 0
  /\ IsStub(classBase[e], in.path)
  /\ in.params = <<>>
  /\ LET id == nextId
         r == uuid(id)
         stub == MirrorRead(classBase[e], <<>>, in.path)
         call == FnCallMsg(id, stub.path, stub.parentPath, in.params).data
         k == Listeners(Peer(e))
         d == Dispatch(child[Peer(e)], call)
         resp == [isError |-> d.isError, data |-> d.data]
         early == k > 0 /\ RepliesBeforeAwait(d)
         heard == OnceListener(resListeners[e], r)
         new == NewCall(id, e, stub.path, stub.parentPath, "app", {})
     IN /\ d.type = "respond" /\ d.sends = <<>>
        /\ nextId' = id + 1
        /\ resListeners' = [resListeners EXCEPT ![e] = @ \cup {r}]
        /\ calls' = (r :> [new EXCEPT
                             !.dropped = IF k = 0 THEN 1 ELSE 0,
                             !.invoked = k * d.invoked,
                             !.recv = Rep(k * d.invoked, <<d.receiver>>),
                             !.finished = IF early THEN k * d.invoked ELSE 0,
                             !.resps = IF early THEN Rep(k, <<resp>>) ELSE <<>>,
                             !.late = IF early /\ heard = {} THEN k ELSE 0])
                     @@ calls
        /\ invs' = invs \cup
                    { [ep |-> Peer(e), req |-> r, lis |-> i, member |-> "",
                       wait |-> "await", send |-> <<ResMsg(r, d.isError, d.data)>>] :
                        i \in IF k > 0 /\ ~early THEN 1..k ELSE {} }
  /\ callsLeft' = callsLeft - 1
  /\ UNCHANGED <<child, allowCount, wraps, lastData, classBase, chan, cbListeners,
                 cbLog, evLog, syncLog, disc, assignsLeft, evtsLeft, evVars, assigned,
                 unhandled>>

\* the microtask after response = await ...: the listener sends the Call Response,
\* which the caller's stream emits at once to the stream.once listener under its id,
\* if there is one
Resume(inv) ==
  /\ inv \in invs
  /\ inv.wait = "await"
  /\ LET r == inv.req
         e == calls[r].caller
         m == inv.send[1]
         once == OnceListener(resListeners[e], m.id)
         res == Outcome(m.data)
     IN /\ invs' = invs \ {inv}
        /\ resListeners' = [resListeners EXCEPT ![e] = AfterOnce(@, once)]
        /\ calls' = [calls EXCEPT
                       ![r] = [Served(calls, r, 1, 1, m.data)[r] EXCEPT
                                 !.st = IF r \in once THEN res.st ELSE @,
                                 !.out = IF r \in once THEN res.out ELSE @,
                                 !.done = @ + (IF r \in once THEN 1 ELSE 0),
                                 !.late = @ + (IF r \in once THEN 0 ELSE 1)]]
  /\ UNCHANGED <<child, allowCount, wraps, lastData, classBase, chan, cbListeners,
                 nextId, cbLog, evLog, syncLog, disc, callsLeft, assignsLeft, evtsLeft,
                 evVars, assigned, unhandled>>

\* ---------------------------------------------------------------- earlier bindings
\* The Rpc classes of the local-IPC binding (src/unnamed/part_000, "ipc") and of the
\* socket.io binding (src/index.js, "sock"): members are named by fnId, responses
\* travel under 'fnRes.' + resId, payloads are JSON, and the constructor listens
\* for requests without any allow ()
Bindings == {"ipc", "sock"}

\* JSON.stringify then JSON.parse: an Error has no enumerable property and arrives
\* as an empty object
Json(value) == IF value.kind \in {"Error", "errobj"} THEN Obj(Empty) ELSE value

FnResId(resId) == "fnRes." \o resId

FlatCallMsg(id, fnId, params) ==
  [id |-> "fnCall", data |-> [fnId |-> fnId, resId |-> uuid(id), params |-> params]]

\* the members the applications call in these bindings; each returns or throws
\* without suspending
FlatInputs == {"greet", "boom", "missing", "a", "serverTest"}

\* rpc.class.<fnId> (): _call (fnId, params)
FlatCall(e, fnId) ==
  /\ callsLeft > 0
  /\ chan' = Enqueue(chan, Peer(e), <<FlatCallMsg(nextId, fnId, <<>>)>>)
  /\ resListeners' = [resListeners EXCEPT ![e] = @ \cup {FnResId(uuid(nextId))}]
  /\ calls' = (uuid(nextId) :> NewCall(nextId, e, <<fnId>>, <<>>, "app", {})) @@ calls
  /\ nextId' = nextId + 1
  /\ callsLeft' = callsLeft - 1
  /\ UNCHANGED <<child, allowCount, wraps, lastData, classBase, cbListeners, invs,
                 cbLog, evLog, syncLog, disc, assignsLeft, evtsLeft, evVars, assigned,
                 unhandled>>

\* the 'fnCall' listener of binding b on request call: the Call Responses it sends,
\* in order, whether the member ran, and whether the listener's promise rejected
FlatDispatch(b, obj, call) ==
  LET member == GetShallowProperty(obj, call.fnId)
      run == Member(member.v, IF b = "ipc" THEN Undefined ELSE obj, call.params)
      error(err) == [isError |-> TRUE, data |-> Json(err)]
      success(response) == [isError |-> FALSE, data |-> response]
      out(resps, invoked, rejects) ==
        [resps |-> resps, invoked |-> invoked, rejects |-> rejects]
  IN IF b = "ipc"
     THEN \* handler (...call.params) inside the try; no return after the catch's send
          IF member.kind # "fn"
          THEN out(<<error(TypeError("handler is not a function")), success(Null)>>,
                   0, FALSE)
          ELSE IF run.type = "throw"
          THEN out(<<error(run.value), success(Null)>>, 1, FALSE)
          ELSE out(<<success(run.value)>>, 1, FALSE)
     ELSE \* this._child[call.fnId].bind (this._child) before the null test and the try
          IF member.kind # "fn"
          THEN out(<<>>, 0, TRUE)
          ELSE IF run.type = "throw"
          THEN out(<<error(run.value)>>, 1, FALSE)
          ELSE out(<<success(run.value)>>, 1, FALSE)

FlatDeliverFnCall(b, e) ==
  /\ chan[e] # <<>> /\ ~disc[e]
  /\ Head(chan[e]).id = "fnCall"
  /\ LET call == Head(chan[e]).data
         r == call.resId
         d == FlatDispatch(b, child[e], call)
     IN /\ chan' = Enqueue([chan EXCEPT ![e] = Tail(@)], Peer(e),
                           [i \in 1..Len(d.resps) |->
                              [id |-> FnResId(r), data |-> d.resps[i]]])
        /\ calls' = [calls EXCEPT ![r].invoked = @ + d.invoked,
                                  ![r].finished = @ + d.invoked,
                                  ![r].resps = @ \o d.resps]
        /\ unhandled' = [unhandled EXCEPT ![e] = @ + (IF d.rejects THEN 1 ELSE 0)]
  /\ UNCHANGED <<child, allowCount, wraps, lastData, classBase, resListeners,
                 cbListeners, invs, nextId, cbLog, evLog, syncLog, disc, callsLeft,
                 assignsLeft, evtsLeft, evVars, assigned>>

\* _genClass's function on the value _call returned: throw result.data
FlatOutcome(out) ==
  IF out.isError
  THEN [st |-> "rejected", out |-> out.data]
  ELSE [st |-> "resolved", out |-> out.data]

\* the emitter emits 'fnRes.' + resId to the stream.once listener of _call, if it is
\* still there
FlatDeliverRes(e) ==
  /\ chan[e] # <<>> /\ ~disc[e]
  /\ Head(chan[e]).id \notin EventNames
  /\ LET m == Head(chan[e])
         once == OnceListener(resListeners[e], m.id)
         res == FlatOutcome(m.data)
     IN /\ resListeners' = [resListeners EXCEPT ![e] = AfterOnce(@, once)]
        /\ calls' = [r \in DOMAIN calls |->
                       IF FnResId(r) \in once
                       THEN [calls[r] EXCEPT !.st = res.st, !.out = res.out,
                                             !.done = @ + 1]
                       ELSE IF FnResId(r) = m.id
                       THEN [calls[r] EXCEPT !.late = @ + 1]
                       ELSE calls[r]]
  /\ chan' = [chan EXCEPT ![e] = Tail(@)]
  /\ UNCHANGED <<child, allowCount, wraps, lastData, classBase, cbListeners, invs,
                 nextId, cbLog, evLog, syncLog, disc, callsLeft, assignsLeft, evtsLeft,
                 evVars, assigned, unhandled>>

\* ---------------------------------------------------------------- specifications
\* Calls from the server side to the client's exposed object
CoreInputs == {in \in CallInputs : in.path \notin {<<"clientTest">>, <<"later">>}}

CallsNext ==
  \/ Allow("C", FALSE)
  \/ \E in \in CoreInputs : AppCall("S", in)
  \/ DeliverFnCall("C")
  \/ DeliverKeyed("S")
  \/ \E inv \in invs : Settle(inv)

Spec == Init /\ [][CallsNext]_vars

\* The same, the client side having been constructed with or without an object
BareInit ==
  \E c \in {ClientChild, Undefined} :
    InitOver([e \in Endpoints |-> IF e = "C" THEN c ELSE ChildOf(e)], MaxCalls, 0, 0)

BareInputs ==
  {in \in CallInputs : in.path \in {<<"greet">>, <<"missing">>, <<"slow">>}}

BareNext ==
  \/ Allow("C", FALSE)
  \/ \E in \in BareInputs : AppCall("S", in)
  \/ DeliverFnCall("C")
  \/ DeliverKeyed("S")
  \/ \E inv \in invs : Settle(inv)

BareSpec == BareInit /\ [][BareNext]_vars

\* Activation and assignments alone, over the README's object or a tree of data
ActInit ==
  \E c \in {ClientChild, DeepChild} :
    InitOver([e \in Endpoints |-> IF e = "C" THEN c ELSE ChildOf(e)], 0, MaxAssign, 0)

ActNext ==
  \/ \E updates \in BOOLEAN : Allow("C", updates)
  \/ \E in \in AssignInputs : Assign("C", in)
  \/ DeliverDataUpdate("S")
  \/ DeliverPropUpdate("S")

ActSpec == ActInit /\ [][ActNext]_vars

\* Calls that pass a function, to members that invoke it at once or keep it
CbInputs == {in \in CallInputs : in.path \in {<<"useCb">>, <<"later">>}}

CbNext ==
  \/ Allow("C", FALSE)
  \/ \E in \in CbInputs : AppCall("S", in)
  \/ DeliverFnCall("C")
  \/ DeliverKeyed("S")
  \/ \E inv \in invs : Settle(inv)

CbSpec == Init /\ [][CbNext]_vars

\* Both sides dispatch (the README scenario), over a connection that stays up and
\* delivers every message
BidiInputs ==
  {in \in CallInputs :
     in.path \in {<<"clientTest">>, <<"greet">>, <<"boom">>, <<"missing">>}}

BidiInit == InitWith(MaxFairCalls, 0, 0)

BidiNext ==
  \/ \E e \in Endpoints : Allow(e, FALSE)
  \/ \E in \in BidiInputs : AppCall("S", in)
  \/ \E e \in Endpoints : DeliverFnCall(e)
  \/ \E e \in Endpoints : DeliverKeyed(e)

FairSpec ==
  /\ BidiInit
  /\ [][BidiNext]_vars
  /\ \A e \in Endpoints : WF_vars(DeliverFnCall(e) \/ DeliverKeyed(e))

\* The client exposes its object with updates; the server mirrors it
\* beside one call with a function argument and one user event
SyncInputs == {in \in CallInputs : in.path = <<"useCb">>}

SyncEvents == {ev \in EventInputs : ev.params = <<Leaf("1")>>}

SyncInit == InitWith(1, MaxAssign, 1)

SyncNext ==
  \/ \E updates \in BOOLEAN : Allow("C", updates)
  \/ \E in \in AssignInputs : Assign("C", in)
  \/ \E in \in SyncInputs : AppCall("S", in)
  \/ \E ev \in SyncEvents : UserEvent("C", ev)
  \/ DeliverEvt("S")
  \/ DeliverDataUpdate("S")
  \/ DeliverPropUpdate("S")
  \/ DeliverFnCall("C")
  \/ DeliverKeyed("S")
  \/ Disconnect
  \/ \E e \in Endpoints : Destroy(e)

SyncSpec == SyncInit /\ [][SyncNext]_vars

\* The mirroring side alone, fed by the connection
RecvInit == InitWith(0, 0, 0)

RecvNext ==
  \/ \E m \in SyncMsgs : Inbound("S", m)
  \/ DeliverDataUpdate("S")
  \/ DeliverPropUpdate("S")

RecvSpec == RecvInit /\ [][RecvNext]_vars

\* User events in both directions
EventsInit == InitWith(0, 0, MaxEvts)

EventsNext ==
  \/ \E e \in Endpoints, l \in ListenerInputs : Subscribe(e, l)
  \/ \E e \in Endpoints, ev \in EventInputs : UserEvent(e, ev)
  \/ \E e \in Endpoints : DeliverEvt(e)

EventsSpec == EventsInit /\ [][EventsNext]_vars

\* Calls that pass functions, over a connection that can close and whose peer can
\* invoke the Callback References it received
RegInputs ==
  { [path |-> <<"useCb">>, params |-> <<Fn("f")>>],
    [path |-> <<"useCb">>, params |-> <<Fn("f"), Leaf("1"), Fn("f")>>] }

RegNext ==
  \/ Allow("C", FALSE)
  \/ \E in \in RegInputs : AppCall("S", in)
  \/ DeliverFnCall("C")
  \/ DeliverKeyed("S")
  \/ \E cb \in cbListeners["S"] : InboundInvoke("S", cb)
  \/ Disconnect
  \/ \E e \in Endpoints : Destroy(e)

RegSpec == Init /\ [][RegNext]_vars

\* An endpoint whose peer is of another make: what the connection carries need
\* not be what _call, allow () and the set traps send
PeerNext ==
  \/ Allow("C", FALSE)
  \/ \E c \in PeerCalls : InboundCall("C", c)
  \/ DeliverFnCall("C")
  \/ DeliverKeyed("S")
  \/ \E m \in PeerSync : Inbound("S", m)
  \/ DeliverDataUpdate("S")
  \/ DeliverPropUpdate("S")

PeerSpec == RecvInit /\ [][PeerNext]_vars

\* The local-IPC binding: each side calls the other's members
IpcNext ==
  \/ \E e \in Endpoints, fnId \in FlatInputs : FlatCall(e, fnId)
  \/ \E e \in Endpoints : FlatDeliverFnCall("ipc", e)
  \/ \E e \in Endpoints : FlatDeliverRes(e)

IpcSpec == Init /\ [][IpcNext]_vars

\* The socket.io binding: each side calls the other's members
SockNext ==
  \/ \E e \in Endpoints, fnId \in FlatInputs : FlatCall(e, fnId)
  \/ \E e \in Endpoints : FlatDeliverFnCall("sock", e)
  \/ \E e \in Endpoints : FlatDeliverRes(e)

SockSpec == Init /\ [][SockNext]_vars

\* Calls from the server side over a direct stream
DirectNext ==
  \/ Allow("C", FALSE)
  \/ \E in \in DirectInputs : DirectCall("S", in)
  \/ \E inv \in invs : Resume(inv)

DirectSpec == Init /\ [][DirectNext]_vars

\* ---------------------------------------------------------------- properties
Issued == DOMAIN calls
Done(r) == calls[r].st # "pending"

\* the request reached an endpoint that had not invoked allow () yet
Unheard(r) == calls[r].dropped > 0

\* ... or its member awaits a call of its own that did
Excused(r) == Unheard(r) \/ \E n \in Issued : calls[n].by = r /\ Unheard(n)

RECURSIVE SumInvoked(_)
SumInvoked(rs) ==
  IF rs = {} THEN 0
  ELSE LET r == CHOOSE x \in rs : TRUE IN calls[r].invoked + SumInvoked(rs \ {r})

\* C1 (as claimed): every Call Request sent by call () to a peer that holds an
\* exposed object is eventually answered by a Call Response with its response id,
\* which completes the call
C1_EveryRequestAnswered == []<>(\A r \in Issued : Done(r))

\* C1 (amended): every Call Request is eventually answered by a Call Response with
\* its response id, provided the peer had invoked allow () before the request was
\* delivered and the member returns or throws (a member awaiting a call of its own
\* that met no allow () never does)
C1_RequestAnsweredOnceAllowed ==
  []<>(\A r \in Issued : (Done(r) /\ Len(calls[r].resps) >= 1) \/ Excused(r))

C1_Witness ==
  \E r \in Issued, x \in Issued :
    /\ Done(r) /\ Len(calls[r].resps) >= 1 /\ calls[r].caller = "S"
    /\ Unheard(x) /\ ~Done(x)

\* C2: the dispatcher of an endpoint sends at most one Call Response for each Call
\* Request delivered to it, and invokes the member at most once, however often
\* allow () was invoked
C2_AtMostOneResponse ==
  \A r \in Issued : Len(calls[r].resps) <= 1 /\ calls[r].invoked <= 1

\* C3: each of the calls outstanding together completes with the payload of a
\* response sent under its own response id, whatever the order of the responses
C3_NoCrossTalk ==
  \A r \in Issued :
    Done(r) =>
      \E i \in 1..Len(calls[r].resps) :
        Outcome(calls[r].resps[i]) = [st |-> calls[r].st, out |-> calls[r].out]

\* two calls answered in the opposite order of their requests, with different payloads
C3_Witness ==
  \E r1 \in Issued, r2 \in Issued :
    /\ calls[r1].n < calls[r2].n
    /\ Done(r1) /\ Done(r2)
    /\ calls[r2].ord < calls[r1].ord
    /\ calls[r1].out # calls[r2].out

\* what the members of the client's exposed object return
ReturnsOf(path) ==
  CASE path = <<"greet">> -> Leaf("hi")
    [] path = <<"b", "get">> -> Leaf("2")
    [] path = <<"useCb">> -> Leaf("ok")
    [] path = <<"slow">> -> Leaf("late")
    [] OTHER -> Undefined

\* C4: a call of a path whose member returns V completes with V, and completes at
\* most once: a later response with the same id neither completes it again nor
\* changes its result
C4_ResolvesWithVOnce ==
  \A r \in Issued :
    /\ calls[r].done <= 1
    /\ (Done(r) /\ ReturnsOf(calls[r].path) # Undefined) =>
         (calls[r].st = "resolved" /\ calls[r].out = ReturnsOf(calls[r].path))

\* a second response with the id of a completed call has been delivered
C4_Witness ==
  \E r \in Issued :
    /\ calls[r].path = <<"greet">>
    /\ calls[r].st = "resolved" /\ calls[r].out = Leaf("hi")
    /\ calls[r].late >= 1

NonResolving == {<<"missing">>, <<"zz", "m">>, <<"a">>}

\* C5: for a path that does not resolve to an invocable member the dispatcher sends
\* exactly one Call Response, with the error flag set, and the call rejects
C5_OneErrorResponse ==
  \A r \in Issued :
    calls[r].path \in NonResolving =>
      /\ Len(calls[r].resps) >= 1 => Len(calls[r].resps) = 1
      /\ \A i \in 1..Len(calls[r].resps) : calls[r].resps[i].isError
      /\ Done(r) => calls[r].st = "rejected"

\* C6: a member throwing Error ("boom") is answered with one Call Response with
\* isError true carrying the serialized error, and the call rejects with an error
\* whose message is "boom"
C6_BoomOneErrorResponse ==
  \A r \in Issued :
    calls[r].path = <<"boom">> =>
      /\ Len(calls[r].resps) >= 1 => (Len(calls[r].resps) = 1 /\ calls[r].invoked = 1)
      /\ \A i \in 1..Len(calls[r].resps) :
           calls[r].resps[i] = [isError |-> TRUE, data |-> ErrioToObject(ErrorOf("boom"))]
      /\ Done(r) => (calls[r].st = "rejected" /\ calls[r].out = ErrorOf("boom"))

\* C7: the callback-invoke message of the reconstructed stub carries the id the
\* calling endpoint registered its listener under, so that the function passed to
\* call () runs with ("1", "2") once for every invocation of the stub
C7_CallbackReachesFunction ==
  /\ \A i \in 1..Len(chan["S"]) :
       (chan["S"][i].id \notin EventNames /\ "params" \in DOMAIN chan["S"][i].data)
         => chan["S"][i].id \in {cb.id : cb \in cbListeners["S"]}
  /\ chan["S"] = <<>> =>
       /\ Len(cbLog["S"]) = SumInvoked({r \in Issued : calls[r].path = <<"useCb">>})
       /\ \A i \in 1..Len(cbLog["S"]) :
            cbLog["S"][i].fn = "f" /\ cbLog["S"][i].args = <<Leaf("1"), Leaf("2")>>

\* C8: no Call Response is sent before the member's invocation has finished, so a
\* call completes only after the member it invoked has finished on the peer
C8_ResponseAfterHandler ==
  \A r \in Issued :
    calls[r].invoked > 0 =>
      /\ Len(calls[r].resps) <= calls[r].finished
      /\ Done(r) => calls[r].finished >= 1

\* a member that settles after its delivery has been awaited and answered
C8_Witness ==
  \E r \in Issued :
    /\ calls[r].path = <<"slow">>
    /\ calls[r].st = "resolved" /\ calls[r].out = Leaf("late")
    /\ calls[r].finished >= 1

LastSnapshot(log) ==
  LET at == {i \in 1..Len(log) : log[i].id = "dataUpdate"}
  IN IF at = {} THEN 0 ELSE CHOOSE i \in at : \A j \in at : j <= i

RECURSIVE SetAll(_, _, _)
SetAll(tree, log, i) ==
  IF i > Len(log) THEN tree
  ELSE SetAll(ObjectPathSet(tree, log[i].data.path, log[i].data.value), log, i + 1)

Replay(log) ==
  LET k == LastSnapshot(log)
  IN SetAll(IF k = 0 THEN Obj(Empty) ELSE log[k].data, log, k + 1)

\* C10: the cached tree is the last delivered snapshot (the empty tree when none was
\* delivered) with the Property Updates delivered after it applied by set-by-path in
\* delivery order; no other event changes it
C10_CacheIsReplay ==
  \A e \in Endpoints : lastData[e] = Replay(syncLog[e])

\* a snapshot and a later Property Update were delivered, then a Call Response, a
\* callback-invoke message and a user event, and the connection closed
C10_Witness ==
  /\ Len(syncLog["S"]) >= 2
  /\ syncLog["S"][Len(syncLog["S"])].id = "propUpdate"
  /\ syncLog["S"][Len(syncLog["S"])].data.path = <<"b", "c">>
  /\ ObjectPathGet(lastData["S"], <<"b", "c">>) = Leaf("5")
  /\ ObjectPathGet(lastData["S"], <<"a">>) = Leaf("1")
  /\ \E r \in Issued : Done(r) /\ calls[r].invoked >= 1
  /\ Len(evLog["S"]) = 1
  /\ disc["S"]

\* the properties the applications read through the mirror
ReadPaths ==
  {<<"a">>, <<"b">>, <<"b", "c">>, <<"b", "get">>, <<"greet">>, <<"zz">>, <<"zz", "m">>}

\* the read the claim describes of property k of the mirror over tree at path p: a
\* property the tree holds reads as its value, or as a mirror when it is an object;
\* any other property reads as a stub
ReadAsClaimed(tree, p, k) ==
  IF tree.kind = "obj" /\ k \in DOMAIN tree.fields /\ tree.fields[k].kind # "undef"
  THEN IF tree.fields[k].kind = "obj"
       THEN Read("mirror", tree.fields[k], Append(p, k), p)
       ELSE Read("value", tree.fields[k], Append(p, k), p)
  ELSE Read("stub", Handler, Append(p, k), p)

\* C11: reading property k of the mirror over the cached tree at path p gives the
\* tree's value verbatim when k holds a leaf, a mirror at p + [k] when it holds an
\* object, and a stub when the tree has no k; the stub's call carries path p + [k]
\* and parentPath p and completes with the outcome of a response to it
C11_MirrorReads ==
  /\ \A p \in ReadPaths :
       LET at == MirrorRead(classBase["S"], <<>>, Front(p))
           k == p[Len(p)]
       IN at.type # "value" =>
            GenClassGet(at.value, at.path, k) = ReadAsClaimed(at.value, Front(p), k)
  /\ \A r \in Issued :
       calls[r].by = "app" =>
         /\ calls[r].parentPath = Front(calls[r].path)
         /\ Done(r) =>
              \E i \in 1..Len(calls[r].resps) :
                Outcome(calls[r].resps[i]) = [st |-> calls[r].st, out |-> calls[r].out]

\* the paths whose reads are compared before and after an update
FramePaths == ReadPaths \cup {<<"x">>, <<"x", "y">>}

IsPrefix(p, q) == Len(p) <= Len(q) /\ SubSeq(q, 1, Len(p)) = p

\* the step delivers the Property Update at the head of e's queue
PropStep(e) ==
  /\ chan[e] # <<>> /\ Head(chan[e]).id = "propUpdate"
  /\ syncLog'[e] = Append(syncLog[e], Head(chan[e]))

\* the step delivers the Snapshot Update at the head of e's queue
SnapStep(e) ==
  /\ chan[e] # <<>> /\ Head(chan[e]).id = "dataUpdate"
  /\ syncLog'[e] = Append(syncLog[e], Head(chan[e]))

\* what the mirror reads at the path of a delivered value according to the claim
ReadOfValue(value, path) ==
  Read(IF value.kind = "obj" THEN "mirror" ELSE "value", value, path, Front(path))

\* C12: after the delivery of a Property Update {path, value} the mirror reads
\* value at path, and every path that is neither a prefix nor an extension of path
\* reads as it did before
C12_PropUpdateFrame ==
  [][\A e \in Endpoints :
       PropStep(e) =>
         LET d == Head(chan[e]).data
         IN /\ d.value.kind # "undef" =>
                 MirrorRead(classBase'[e], <<>>, d.path) = ReadOfValue(d.value, d.path)
            /\ \A q \in FramePaths :
                 (~IsPrefix(q, d.path) /\ ~IsPrefix(d.path, q)) =>
                   MirrorRead(classBase'[e], <<>>, q) = MirrorRead(classBase[e], <<>>, q)
    ]_vars

Last(log) == log[Len(log)]

\* C13: the delivery of a Snapshot Update equal to the one delivered just before it
\* changes neither the cached tree nor what the mirror reads, whatever Property
\* Updates came before the first of the two
C13_SnapshotIdempotent ==
  [][\A e \in Endpoints :
       (SnapStep(e) /\ syncLog[e] # <<>> /\ Last(syncLog[e]) = Head(chan[e])) =>
         /\ lastData'[e] = lastData[e]
         /\ lastData'[e] = Head(chan[e]).data
         /\ \A q \in FramePaths :
              MirrorRead(classBase'[e], <<>>, q) = MirrorRead(classBase[e], <<>>, q)
    ]_vars

\* a Property Update, then the same snapshot twice
C13_Witness ==
  /\ Len(syncLog["S"]) = 3
  /\ syncLog["S"][1].id = "propUpdate"
  /\ syncLog["S"][2].id = "dataUpdate"
  /\ syncLog["S"][3] = syncLog["S"][2]
  /\ lastData["S"] = syncLog["S"][3].data
  /\ MirrorRead(classBase["S"], <<>>, <<"b", "c">>).value = Leaf("2")

\* C20: after the delivery of a Property Update the value is read at its path in
\* the cached tree, missing intermediate segments having been created as objects,
\* also when no snapshot was ever delivered; and the delivery of a Property Update
\* equal to the one delivered just before it leaves the cached tree as it was
C20_SetByPathIdempotent ==
  [][\A e \in Endpoints :
       PropStep(e) =>
         LET d == Head(chan[e]).data
         IN /\ ObjectPathGet(lastData'[e], d.path) = d.value
            /\ \A i \in 1..(Len(d.path) - 1) :
                 ObjectPathGet(lastData'[e], SubSeq(d.path, 1, i)).kind = "obj"
            /\ (syncLog[e] # <<>> /\ Last(syncLog[e]) = Head(chan[e])) =>
                 lastData'[e] = lastData[e]
    ]_vars

\* no snapshot was delivered; the same update of a path with a missing intermediate
\* segment was delivered twice
C20_Witness ==
  /\ Len(syncLog["S"]) = 2
  /\ syncLog["S"][1] = PropUpdateMsg(<<"x", "y">>, Leaf("3"))
  /\ syncLog["S"][2] = syncLog["S"][1]
  /\ lastData["S"] = Obj([k \in {"x"} |-> Obj([j \in {"y"} |-> Leaf("3")])])

\* the message at the head of e's queue is a callback-invoke message
CallbackInvokeAtHead(e) ==
  /\ chan[e] # <<>> /\ Head(chan[e]).id \notin EventNames
  /\ "params" \in DOMAIN Head(chan[e]).data

Exposed(e) == ChildOf(Peer(e))

\* the object at path, found by looking up one property after the other
RECURSIVE Lookup(_, _)
Lookup(obj, path) ==
  IF path = <<>> THEN obj
  ELSE IF obj.kind = "obj" /\ Head(path) \in DOMAIN obj.fields
       THEN Lookup(obj.fields[Head(path)], Tail(path))
       ELSE Undefined

\* C19: every invocation of a member is bound to the object found at parentPath on
\* the exposed object, the exposed object itself for a top-level member; a member
\* reading the receiver's property reads that object's; and dispatching leaves the
\* exposed object as it was and invokes the resolved member only
C19_ReceiverAtParentPath ==
  /\ \A r \in Issued :
       /\ \A i \in 1..Len(calls[r].recv) :
            /\ calls[r].recv[i] = Lookup(Exposed(calls[r].caller), calls[r].parentPath)
            /\ calls[r].parentPath = <<>> => calls[r].recv[i] = Exposed(calls[r].caller)
       /\ Len(calls[r].recv) = calls[r].invoked
       /\ calls[r].invoked > 0 => Lookup(Exposed(calls[r].caller), calls[r].path).kind = "fn"
       /\ (calls[r].path = <<"b", "get">> /\ calls[r].st = "resolved") =>
            calls[r].out = Lookup(Exposed(calls[r].caller), <<"b", "c">>)
  /\ child = [e \in Endpoints |-> ChildOf(e)]

\* a nested member and a top-level member have been invoked and answered
C19_Witness ==
  \E r1 \in Issued, r2 \in Issued :
    /\ calls[r1].path = <<"b", "get">> /\ calls[r1].st = "resolved"
    /\ calls[r1].out = Leaf("2")
    /\ calls[r1].recv[1] = ClientChild.fields["b"]
    /\ calls[r2].path = <<"greet">> /\ calls[r2].st = "resolved"
    /\ calls[r2].recv[1] = ClientChild

\* C15: a call completes only in the step that delivers a message under its
\* response id to its caller; no other step, in particular neither the loss of the
\* connection nor destroy (), resolves or rejects it, so a call whose response is
\* not delivered stays pending
C15_PendingUntilResponse ==
  [][\A r \in Issued :
       LET e == calls[r].caller
       IN (calls[r].st = "pending" /\ calls'[r].st # "pending") =>
            /\ chan[e] # <<>> /\ Head(chan[e]).id = r
            /\ chan'[e] = Tail(chan[e])
            /\ ~disc[e]
    ]_vars

\* the request was served and its response sent, the connection closed before the
\* response was delivered, and the call is pending
C15_Witness ==
  \E r \in Issued :
    /\ calls[r].st = "pending"
    /\ Len(calls[r].resps) >= 1
    /\ disc[calls[r].caller]
    /\ chan[calls[r].caller] = <<>>

\* the user events in flight to e, in channel order
EvtsInFlight(e) ==
  LET evts == SelectSeq(chan[e], LAMBDA m : m.id = "evt")
  IN [i \in 1..Len(evts) |-> evts[i].data]

\* the listener functions of e's events object
ListenerFns == {l.fn : l \in ListenerInputs}

\* C16: the events an endpoint sent are re-emitted on the peer's events object once
\* each and in the order of sending; the delivery of an event invokes every listener
\* subscribed to its id once with its arguments and no other listener, and sends
\* nothing back
C16_UserEvents ==
  /\ [](\A e \in Endpoints : evLog[Peer(e)] \o EvtsInFlight(Peer(e)) = evSent[e])
  /\ [][\A e \in Endpoints :
          evLog'[e] # evLog[e] =>
            LET d == Last(evLog'[e])
                new == SubSeq(lisLog'[e], Len(lisLog[e]) + 1, Len(lisLog'[e]))
            IN /\ evLog'[e] = Append(evLog[e], Head(chan[e]).data)
               /\ SubSeq(lisLog'[e], 1, Len(lisLog[e])) = lisLog[e]
               /\ \A i \in 1..Len(new) : new[i].args = d.params
               /\ \A fn \in ListenerFns :
                    Cardinality({i \in 1..Len(new) : new[i].fn = fn})
                      = Cardinality({j \in 1..Len(evListeners[e]) :
                                       evListeners[e][j] = [id |-> d.id, fn |-> fn]})
               /\ chan'[Peer(e)] = chan[Peer(e)]
       ]_vars

\* two events sent one after the other were delivered in that order to an events
\* object with a listener under their id and a listener under another id
C16_Witness ==
  /\ evSent["C"] = <<[id |-> "hello", params |-> <<Leaf("1")>>],
                     [id |-> "hello", params |-> <<Leaf("2")>>]>>
  /\ evListeners["S"] = <<[id |-> "hello", fn |-> "h1"], [id |-> "bye", fn |-> "h2"]>>
  /\ lisLog["S"] = <<[fn |-> "h1", args |-> <<Leaf("1")>>],
                     [fn |-> "h1", args |-> <<Leaf("2")>>]>>
  /\ chan["S"] = <<>> /\ chan["C"] = <<>>

\* a tree without its undefined-valued properties
RECURSIVE Data(_)
Data(node) ==
  IF node.kind # "obj" THEN node
  ELSE LET keep == {k \in DOMAIN node.fields : node.fields[k].kind # "undef"}
       IN Obj([k \in keep |-> Data(node.fields[k])])

\* allow (true) has been invoked on e
Activated(e) == wraps[e] # Empty

\* C17: after allow (true) and the application's assignments to leaves of the
\* exposed object, top-level or nested, once nothing is in flight on a connection
\* that is up the mirroring side's cached tree is the exposed object's data tree
C17_SyncConverges ==
  (Activated("C") /\ chan["S"] = <<>> /\ ~disc["S"]) =>
    Data(lastData["S"]) = Data(Serialize(child["C"]))

\* C18: after allow (true), an assignment of value to property k of the nested
\* object at path p sends one Property Update {p + [k], value}, placed behind what
\* is already in flight, and leaves the local property equal to value
C18_OneUpdatePerAssignment ==
  [][(assigned'["C"] # assigned["C"] /\ Activated("C") /\ ~disc["S"]) =>
       LET in == Last(assigned'["C"])
       IN Len(in.path) >= 2 =>
            /\ chan'["S"] = Append(chan["S"], PropUpdateMsg(in.path, in.value))
            /\ ObjectPathGet(child'["C"], in.path) = in.value
    ]_vars

\* the identifiers drawn so far: response ids and Callback Reference ids
UsedIds == DOMAIN calls \cup {cb.id : cb \in UNION {cbListeners[e] : e \in Endpoints}}

\* the step delivers the message at the head of e's queue
Delivers(e) == chan[e] # <<>> /\ ~disc[e] /\ chan'[e] = Tail(chan[e]) /\ disc' = disc

\* the Callback References in the argument list of a Call Request
FuncIds(params) == {params[i].resId : i \in {j \in 1..Len(params) : params[j].isFunc}}

FuncCount(params) == Cardinality({j \in 1..Len(params) : params[j].isFunc})

\* C21: a response listener leaves the stream only in the step that delivers a
\* message under its own response id, and that step removes it; no step removes a
\* callback listener, neither the completion of its call, nor its invocation, nor
\* the loss of the connection or destroy (); and a call adds one callback listener
\* for each function-valued argument, each under an id not drawn before
C21_ListenerLifecycle ==
  [][\A e \in Endpoints :
       /\ \A r \in resListeners[e] \ resListeners'[e] :
            Delivers(e) /\ Head(chan[e]).id = r
       /\ (Delivers(e) /\ Head(chan[e]).id \in resListeners[e]) =>
            resListeners'[e] = resListeners[e] \ {Head(chan[e]).id}
       /\ cbListeners[e] \subseteq cbListeners'[e]
       /\ LET new == cbListeners'[e] \ cbListeners[e]
              issued == {r \in DOMAIN calls' \ DOMAIN calls :
                           calls'[r].caller = e /\ calls'[r].by = "app"}
          IN /\ new # {} => issued # {}
             /\ \A cb \in new : cb.id \notin UsedIds \cup DOMAIN calls'
             /\ Cardinality({cb.id : cb \in new}) = Cardinality(new)
             /\ \A r \in issued :
                  /\ calls'[r].refs = {cb.id : cb \in new}
                  /\ ~disc[Peer(e)] =>
                       LET m == Last(chan'[Peer(e)])
                       IN /\ m.id = "fnCall" /\ m.data.resId = r
                          /\ FuncIds(m.data.params) = {cb.id : cb \in new}
                          /\ FuncCount(m.data.params) = Cardinality(new)
    ]_vars

\* a call that passed two functions has completed, one of its callback listeners has
\* been invoked, the connection has closed, and both listeners are still registered
\* while the response listener is gone
C21_Witness ==
  \E r \in Issued :
    LET e == calls[r].caller
    IN /\ Cardinality(calls[r].refs) = 2
       /\ Done(r) /\ r \notin resListeners[e]
       /\ \E i \in 1..Len(cbLog[e]) : cbLog[e][i].id \in calls[r].refs
       /\ disc[e]
       /\ calls[r].refs \subseteq {cb.id : cb \in cbListeners[e]}

\* a payload the protocol does not describe: a Call Request without an argument
\* list or with an entry that is no wrapped value, a Snapshot Update without an object
Malformed(m) ==
  CASE m.id = "fnCall" ->
         \/ "params" \notin DOMAIN m.data
         \/ \E i \in 1..Len(m.data.params) : "isFunc" \notin DOMAIN m.data.params[i]
    [] m.id = "dataUpdate" -> m.data.kind # "obj"
    [] OTHER -> FALSE

\* C22: the delivery of a malformed payload on a protocol event is ignored: no
\* listener's promise rejects unhandled, no member is invoked, nothing is sent and
\* the endpoint's state stays as it was; and well-formed Call Requests delivered to an
\* endpoint that invoked allow () are answered all the same
C22_MalformedIgnored ==
  /\ [][\A e \in Endpoints :
          (Delivers(e) /\ Malformed(Head(chan[e]))) =>
            /\ unhandled'[e] = unhandled[e]
            /\ calls' = calls
            /\ chan'[Peer(e)] = chan[Peer(e)]
            /\ lastData'[e] = lastData[e] /\ classBase'[e] = classBase[e]
            /\ child'[e] = child[e]
       ]_vars
  /\ [](\A r \in FromPeer :
          LET inFlight == \E i \in 1..Len(chan["C"]) :
                            chan["C"][i].id = "fnCall" /\ chan["C"][i].data.resId = r
          IN (~inFlight /\ ~Unheard(r) /\ calls[r].path = <<"greet">>
                /\ calls[r].invoked > 0)
               => Len(calls[r].resps) >= 1)

\* the Call Request of r has been delivered to the peer of its caller
Delivered(r) ==
  \A i \in 1..Len(chan[Peer(calls[r].caller)]) :
    LET m == chan[Peer(calls[r].caller)][i]
    IN m.id = "fnCall" => m.data.resId # r

\* the member that throws, and a name that is no member of either exposed object
FlatFailing == {<<"boom">>, <<"missing">>}

\* C23: in the local-IPC binding a Call Request whose member throws or does not
\* exist is answered with one Call Response, with isError true, and with no success
\* Call Response
C23_IpcOneErrorResponse ==
  \A r \in Issued :
    (calls[r].path \in FlatFailing /\ Delivered(r)) =>
      /\ Len(calls[r].resps) = 1
      /\ \A i \in 1..Len(calls[r].resps) : calls[r].resps[i].isError

NoSuchMethod == [isError |-> TRUE, data |-> Leaf("No such method")]

\* C24: in the socket binding of src/index.js a Call Request whose fnId names no
\* member is answered with the one Call Response {isError: true, data: 'No such
\* method'}, the call rejects with that data once the response is delivered, and no
\* listener fails
C24_SockNoSuchMethod ==
  /\ \A r \in Issued :
       (calls[r].path = <<"missing">> /\ Delivered(r)) =>
         /\ calls[r].resps = <<NoSuchMethod>>
         /\ chan[calls[r].caller] = <<>> =>
              (calls[r].st = "rejected" /\ calls[r].out = NoSuchMethod.data)
  /\ \A e \in Endpoints : unhandled[e] = 0

\* C25: no Call Response is lost at the caller: whenever a Call Response under
\* response id r reaches the endpoint that issued the request, a listener for r is
\* registered, also on a stream that delivers inside send () and for a reply the
\* dispatcher sends at once
C25_NoResponseLost ==
  \A r \in Issued : calls[r].late = 0

\* the step delivers a Call Request to e
RequestStep(e) == Delivers(e) /\ Head(chan[e]).id = "fnCall"

\* C26: a Call Request delivered to an endpoint that has not invoked allow (), or
\* that was constructed without an object, is discarded: the step invokes nothing,
\* sends nothing and keeps nothing to be served; and whatever happens afterwards, a
\* later allow () included, no member is invoked for it, no Call Response is sent for
\* it and the caller's call stays pending
C26_NoDispatchBeforeAllow ==
  /\ [][\A e \in Endpoints :
          (RequestStep(e) /\ (allowCount[e] = 0 \/ IsNull(child[e]))) =>
            LET r == Head(chan[e]).data.resId
            IN /\ chan'[Peer(e)] = chan[Peer(e)]
               /\ invs' = invs
               /\ calls'[r].invoked = calls[r].invoked
               /\ calls'[r].resps = calls[r].resps
               /\ calls'[r].dropped = calls[r].dropped + 1
       ]_vars
  /\ [](\A r \in Issued :
          Unheard(r) =>
            /\ calls[r].invoked = 0 /\ calls[r].resps = <<>>
            /\ calls[r].st = "pending"
            /\ \A inv \in invs : inv.req # r
            /\ Delivered(r))
  /\ \A e \in Endpoints : [](IsNull(child[e]) => allowCount[e] = 0)

\* a request reached the client before its allow () and was discarded; allow () was
\* invoked afterwards and a later request was answered, while the first call is
\* pending with nothing in flight
C26_Witness ==
  \E r1 \in Issued, r2 \in Issued :
    /\ Unheard(r1) /\ calls[r1].st = "pending" /\ calls[r1].resps = <<>>
    /\ calls[r1].n < calls[r2].n
    /\ allowCount["C"] >= 1
    /\ calls[r2].st = "resolved" /\ calls[r2].invoked >= 1
    /\ chan["S"] = <<>> /\ chan["C"] = <<>>

\* the step is an allow (true) of e
ActivationStep(e) == allowCount'[e] = allowCount[e] + 1 /\ wraps'[e] # wraps[e]

\* the synchronisation messages sent to e so far, delivered or in flight, in order
SyncSent(e) ==
  SelectSeq(syncLog[e] \o chan[e], LAMBDA m : m.id \in {"dataUpdate", "propUpdate"})

\* C27: allow (true) puts one message on the channel, the Snapshot Update of the
\* exposed object, and no Property Update, whatever the depth of the exposed tree;
\* and no Property Update of an endpoint precedes its first Snapshot Update
C27_ActivationSendsSnapshotOnly ==
  /\ [][\A e \in Endpoints :
          ActivationStep(e) =>
            chan'[Peer(e)] =
              Append(chan[Peer(e)], [id |-> "dataUpdate", data |-> Serialize(child[e])])
       ]_vars
  /\ [](\A e \in Endpoints : SyncSent(e) # <<>> => SyncSent(e)[1].id = "dataUpdate")

====
